---- MODULE Spec2Model ----
(***************************************************************************)
(* Model of outline::OutlineClient (src/src/OutlineClient.cpp): the five   *)
(* public key-management operations and the four verb-specific HTTPS       *)
(* transport functions they call.  Text is modelled as a sequence of       *)
(* character codes, so that conversions (int -> char, int -> decimal text, *)
(* JSON parse / serialize, placeholder substitution) are computed.         *)
(***************************************************************************)
EXTENDS Integers, Sequences, FiniteSets, TLC

VARIABLES m_apiUrl, ctorApiUrl, conn, pc, op, arg, endpoint, keyObj, keyStr,
          req, res, ret, outcome, readEc, shutEc, writes, reads, shutdowns,
          errors, calls, cerr

vars == <<m_apiUrl, ctorApiUrl, conn, pc, op, arg, endpoint, keyObj, keyStr,
          req, res, ret, outcome, readEc, shutEc, writes, reads, shutdowns,
          errors, calls, cerr>>

\* Number of public operations invoked on one client in a behaviour.
MaxCalls == 2

(***************************************************************************)
(* Text literals (character codes).                                        *)
(***************************************************************************)
\* "/access-keys"
T_AccessKeys == <<47, 97, 99, 99, 101, 115, 115, 45, 107, 101, 121, 115>>
\* "{id}"
KeyId == <<123, 105, 100, 125>>
\* "/access-keys/{id}"
T_AccessKeyById == T_AccessKeys \o <<47>> \o KeyId
\* "name", "password", "method", "limit", "bytes"
K_name == <<110, 97, 109, 101>>
K_password == <<112, 97, 115, 115, 119, 111, 114, 100>>
K_method == <<109, 101, 116, 104, 111, 100>>
K_limit == <<108, 105, 109, 105, 116>>
K_bytes == <<98, 121, 116, 101, 115>>

\* api::Endpoints::* of outline/constants/ApiEndpoint.h
Endpoints(o) ==
  CASE o = "getAccessKeys" -> T_AccessKeys
    [] o = "getAccessKey" -> T_AccessKeyById
    [] o = "createAccessKey" -> T_AccessKeys
    [] o = "updateAccessKey" -> T_AccessKeyById
    [] o = "deleteAccessKey" -> T_AccessKeyById

(***************************************************************************)
(* Conversions.                                                            *)
(***************************************************************************)
RECURSIVE ToDecimal(_)
\* std::to_string of a non-negative integer
ToDecimal(n) == IF n < 10 THEN <<48 + n>> ELSE ToDecimal(n \div 10) \o <<48 + (n % 10)>>

\* std::string::operator=(char) applied to an int: the int is narrowed to
\* one char and the string becomes that single character.
AssignIntToString(n) == <<n % 256>>

IsPrefixAt(s, i, p) ==
  /\ i + Len(p) - 1 <= Len(s)
  /\ \A k \in 1..Len(p) : s[i + k - 1] = p[k]

RECURSIVE ReplaceAllFrom(_, _, _, _)
ReplaceAllFrom(s, i, from, to) ==
  IF i > Len(s) THEN <<>>
  ELSE IF IsPrefixAt(s, i, from)
       THEN to \o ReplaceAllFrom(s, i + Len(from), from, to)
       ELSE <<s[i]>> \o ReplaceAllFrom(s, i + 1, from, to)

RECURSIVE replacePlaceholders(_, _)
\* utils::replacePlaceholders: every placeholder of the map is substituted
replacePlaceholders(template, placeholders) ==
  IF DOMAIN placeholders = {} THEN template
  ELSE LET k == CHOOSE x \in DOMAIN placeholders : TRUE
           rest == [x \in DOMAIN placeholders \ {k} |-> placeholders[x]]
       IN replacePlaceholders(ReplaceAllFrom(template, 1, k, placeholders[k]), rest)

\* utils::appendUrl: the endpoint path is appended to the URL's path without
\* doubling the separator; host, port and query are kept.
appendUrl(url, path) ==
  LET p == url.path
      joined == IF Len(p) > 0 /\ p[Len(p)] = 47 /\ Len(path) > 0 /\ path[1] = 47
                THEN p \o Tail(path)
                ELSE p \o path
  IN [url EXCEPT !.path = joined]

\* target = encoded_path, plus "?" and the query when the query is not empty
Target(url) ==
  IF url.query # <<>> THEN url.path \o <<63>> \o url.query ELSE url.path

(***************************************************************************)
(* JSON values, boost::json::serialize and boost::json::parse (numbers,    *)
(* strings without escapes, arrays, objects, insignificant whitespace).    *)
(***************************************************************************)
JNum(n) == [t |-> "num", num |-> n]
JStr(s) == [t |-> "str", str |-> s]
JArr(items) == [t |-> "arr", items |-> items]
\* members: sequence of <<key, value>> in insertion order
JObj(members) == [t |-> "obj", members |-> members]
JNull == [t |-> "null"]

RECURSIVE serialize(_)
RECURSIVE SerializeItems(_, _)
RECURSIVE SerializeMembers(_, _)
SerializeItems(items, i) ==
  IF i > Len(items) THEN <<>>
  ELSE (IF i > 1 THEN <<44>> ELSE <<>>) \o serialize(items[i])
       \o SerializeItems(items, i + 1)
SerializeMembers(ms, i) ==
  IF i > Len(ms) THEN <<>>
  ELSE (IF i > 1 THEN <<44>> ELSE <<>>) \o <<34>> \o ms[i][1] \o <<34, 58>>
       \o serialize(ms[i][2]) \o SerializeMembers(ms, i + 1)
serialize(v) ==
  CASE v.t = "num" -> ToDecimal(v.num)
    [] v.t = "str" -> <<34>> \o v.str \o <<34>>
    [] v.t = "arr" -> <<91>> \o SerializeItems(v.items, 1) \o <<93>>
    [] v.t = "obj" -> <<123>> \o SerializeMembers(v.members, 1) \o <<125>>
    [] v.t = "null" -> <<110, 117, 108, 108>>

IsWs(c) == c \in {32, 9, 10, 13}
IsDigit(c) == c \in 48..57
ParseFail == [ok |-> FALSE, val |-> JNull, next |-> 0]
ParseOk(v, n) == [ok |-> TRUE, val |-> v, next |-> n]

RECURSIVE SkipWs(_, _)
SkipWs(s, i) == IF i <= Len(s) /\ IsWs(s[i]) THEN SkipWs(s, i + 1) ELSE i

RECURSIVE ScanDigits(_, _)
ScanDigits(s, i) == IF i <= Len(s) /\ IsDigit(s[i]) THEN ScanDigits(s, i + 1) ELSE i

RECURSIVE FromDecimal(_, _, _, _)
FromDecimal(s, i, j, acc) ==
  IF i > j THEN acc ELSE FromDecimal(s, i + 1, j, 10 * acc + (s[i] - 48))

RECURSIVE ScanString(_, _)
\* index of the closing quote, 0 when there is none
ScanString(s, i) ==
  IF i > Len(s) THEN 0 ELSE IF s[i] = 34 THEN i ELSE ScanString(s, i + 1)

ParseNumber(s, i) ==
  LET e == ScanDigits(s, i)
  IN IF s[i] = 48 /\ e > i + 1 THEN ParseFail
     ELSE ParseOk(JNum(FromDecimal(s, i, e - 1, 0)), e)

ParseString(s, i) ==
  LET e == ScanString(s, i + 1)
  IN IF e = 0 THEN ParseFail ELSE ParseOk(JStr(SubSeq(s, i + 1, e - 1)), e + 1)

RECURSIVE ParseValue(_, _)
RECURSIVE ParseElems(_, _, _)
RECURSIVE ParseMembers(_, _, _)
\* i is the index of the first non-blank character of the value
ParseValue(s, i) ==
  IF i > Len(s) THEN ParseFail
  ELSE CASE s[i] = 91 ->
              LET j == SkipWs(s, i + 1)
              IN IF j <= Len(s) /\ s[j] = 93 THEN ParseOk(JArr(<<>>), j + 1)
                 ELSE ParseElems(s, j, <<>>)
         [] s[i] = 123 ->
              LET j == SkipWs(s, i + 1)
              IN IF j <= Len(s) /\ s[j] = 125 THEN ParseOk(JObj(<<>>), j + 1)
                 ELSE ParseMembers(s, j, <<>>)
         [] s[i] = 34 -> ParseString(s, i)
         [] IsDigit(s[i]) -> ParseNumber(s, i)
         [] OTHER -> ParseFail
ParseElems(s, i, acc) ==
  LET r == ParseValue(s, i)
  IN IF ~r.ok THEN ParseFail
     ELSE LET j == SkipWs(s, r.next)
              acc2 == Append(acc, r.val)
          IN IF j > Len(s) THEN ParseFail
             ELSE IF s[j] = 93 THEN ParseOk(JArr(acc2), j + 1)
             ELSE IF s[j] = 44 THEN ParseElems(s, SkipWs(s, j + 1), acc2)
             ELSE ParseFail
ParseMembers(s, i, acc) ==
  IF i > Len(s) \/ s[i] # 34 THEN ParseFail
  ELSE LET k == ParseString(s, i)
       IN IF ~k.ok THEN ParseFail
          ELSE LET c == SkipWs(s, k.next)
               IN IF c > Len(s) \/ s[c] # 58 THEN ParseFail
                  ELSE LET r == ParseValue(s, SkipWs(s, c + 1))
                       IN IF ~r.ok THEN ParseFail
                          ELSE LET j == SkipWs(s, r.next)
                                   acc2 == Append(acc, <<k.val.str, r.val>>)
                               IN IF j > Len(s) THEN ParseFail
                                  ELSE IF s[j] = 125 THEN ParseOk(JObj(acc2), j + 1)
                                  ELSE IF s[j] = 44
                                       THEN ParseMembers(s, SkipWs(s, j + 1), acc2)
                                  ELSE ParseFail

\* boost::json::parse: the whole text must be one value (blanks allowed
\* around it); any other text is an error (system_error thrown)
parse(s) ==
  LET r == ParseValue(s, SkipWs(s, 1))
  IN IF r.ok /\ SkipWs(s, r.next) = Len(s) + 1 THEN r ELSE ParseFail

(***************************************************************************)
(* Inputs.                                                                 *)
(***************************************************************************)
\* "alice", "pw", "aes"
V_name == <<97, 108, 105, 99, 101>>
V_password == <<112, 119>>
V_method == <<97, 101, 115>>

\* An optional field is <<>> (absent) or <<v>> (present).
has_value(o) == Len(o) > 0
value(o) == o[1]

ParamSet ==
  [name : {<<>>, <<V_name>>}, password : {<<>>, <<V_password>>},
   method : {<<>>, <<V_method>>}, data_limit_bytes : {<<>>, <<0>>, <<1000>>}]
NoParams == [name |-> <<>>, password |-> <<>>, method |-> <<>>,
             data_limit_bytes |-> <<>>]

\* string key identifiers "3"; integer key identifiers
StrIds == {<<51>>}
IntIds == {3, 51}

\* base URLs accepted by parse_uri: https://host/x and https://host/x/
BaseUrls ==
  {[path |-> <<47, 120>>, query |-> <<>>, host |-> "host", port |-> ""],
   [path |-> <<47, 120, 47>>, query |-> <<>>, host |-> "host", port |-> ""]}

Statuses == {200, 201, 204, 404}
\* response bodies: empty; {"a":[ 1 ]} ; [] ; {"a":
Bodies ==
  {<<>>,
   <<123, 34, 97, 34, 58, 91, 32, 49, 32, 93, 125>>,
   <<91, 93>>,
   <<123, 34, 97, 34, 58>>}

(***************************************************************************)
(* Public operations: the part before the transport call.                  *)
(***************************************************************************)
Verb(o) ==
  CASE o = "getAccessKeys" -> "GET"
    [] o = "getAccessKey" -> "GET"
    [] o = "createAccessKey" -> "POST"
    [] o = "updateAccessKey" -> "PUT"
    [] o = "deleteAccessKey" -> "DELETE"

HasBody(verb) == verb \in {"POST", "PUT"}

\* variant: an absent data limit is sent as a limit of zero bytes
BuildKeyObj_ZeroLimit(params) ==
  LET m1 == IF has_value(params.name)
            THEN <<<<K_name, JStr(value(params.name))>>>> ELSE <<>>
      m2 == IF has_value(params.password)
            THEN Append(m1, <<K_password, JStr(value(params.password))>>) ELSE m1
      m3 == IF has_value(params.method)
            THEN Append(m2, <<K_method, JStr(value(params.method))>>) ELSE m2
      n == IF has_value(params.data_limit_bytes)
           THEN value(params.data_limit_bytes) ELSE 0
  IN JObj(Append(m3, <<K_limit, JObj(<<<<K_bytes, JNum(n)>>>>)>>))

\* the optional-field assembly of createAccessKey and updateAccessKey
BuildKeyObj(params) ==
  LET m1 == IF has_value(params.name)
            THEN <<<<K_name, JStr(value(params.name))>>>> ELSE <<>>
      m2 == IF has_value(params.password)
            THEN Append(m1, <<K_password, JStr(value(params.password))>>) ELSE m1
      m3 == IF has_value(params.method)
            THEN Append(m2, <<K_method, JStr(value(params.method))>>) ELSE m2
      m4 == IF has_value(params.data_limit_bytes)
            THEN Append(m3, <<K_limit,
                   JObj(<<<<K_bytes, JNum(value(params.data_limit_bytes))>>>>)>>)
            ELSE m3
  IN JObj(m4)

NoOutcome == [kind |-> "none"]
DefaultResponse == [status |-> 200, body |-> <<>>]
NoArg == [params |-> NoParams, strId |-> <<>>, intId |-> -1]

Init ==
  /\ ctorApiUrl \in BaseUrls
  /\ m_apiUrl = ctorApiUrl
  /\ conn = "closed"
  /\ pc = "idle"
  /\ op = "none"
  /\ arg = NoArg
  /\ endpoint = <<>>
  /\ keyObj = JNull
  /\ keyStr = <<>>
  /\ req = <<>>
  /\ res = DefaultResponse
  /\ ret = <<>>
  /\ outcome = NoOutcome
  /\ readEc = "none"
  /\ shutEc = "none"
  /\ writes = 0
  /\ reads = 0
  /\ shutdowns = 0
  /\ errors = 0
  /\ calls = 0
  /\ cerr = FALSE

\* entry of a public operation up to the call of doGet/doPost/doPut/doDelete
Enter(o, a, ep, obj) ==
  /\ pc \in {"idle", "done"}
  /\ calls < MaxCalls
  /\ calls' = calls + 1
  /\ op' = o
  /\ arg' = a
  /\ endpoint' = ep
  /\ m_apiUrl' = appendUrl(m_apiUrl, ep)
  /\ keyObj' = obj
  /\ keyStr' = IF HasBody(Verb(o)) THEN serialize(obj) ELSE <<>>
  /\ pc' = "resolve"
  /\ req' = <<>>
  /\ res' = DefaultResponse
  /\ ret' = <<>>
  /\ outcome' = NoOutcome
  /\ readEc' = "none"
  /\ shutEc' = "none"
  /\ writes' = 0
  /\ reads' = 0
  /\ shutdowns' = 0
  /\ errors' = 0
  /\ UNCHANGED <<ctorApiUrl, conn, cerr>>

getAccessKeys ==
  Enter("getAccessKeys", NoArg, Endpoints("getAccessKeys"), JNull)

getAccessKey(accessKeyId) ==
  LET placeholders == (KeyId :> accessKeyId)
  IN Enter("getAccessKey", [NoArg EXCEPT !.strId = accessKeyId],
           replacePlaceholders(Endpoints("getAccessKey"), placeholders), JNull)

createAccessKey(params) ==
  Enter("createAccessKey", [NoArg EXCEPT !.params = params],
        Endpoints("createAccessKey"), BuildKeyObj(params))

updateAccessKey(accessKeyId, params) ==
  LET placeholders == (KeyId :> AssignIntToString(accessKeyId))
  IN Enter("updateAccessKey",
           [NoArg EXCEPT !.intId = accessKeyId, !.params = params],
           replacePlaceholders(Endpoints("updateAccessKey"), placeholders),
           BuildKeyObj(params))

deleteAccessKey(accessKeyId) ==
  LET placeholders == (KeyId :> accessKeyId)
  IN Enter("deleteAccessKey", [NoArg EXCEPT !.strId = accessKeyId],
           replacePlaceholders(Endpoints("deleteAccessKey"), placeholders), JNull)

(***************************************************************************)
(* Transport: doHttpsGet / doHttpsPut / doHttpsPost / doHttpsDelete.       *)
(* Each blocking network call is one step; its result is chosen by the     *)
(* environment.  conn is the state of the connection held by m_sslStream.  *)
(***************************************************************************)
ReadResults ==
  [kind : {"response"}, status : Statuses, body : Bodies]
    \cup {[kind |-> "end_of_stream"], [kind |-> "error"]}
ShutdownCodes == {"none", "eof", "other"}

\* a boost::system::system_error leaves the transport function and the
\* public operation
Throw(step) ==
  /\ pc' = "done"
  /\ outcome' = [kind |-> "TransportFault", step |-> step]
  /\ errors' = errors + 1

\* doHttpsPost only: read's end_of_stream is not thrown
ReadErrorTolerated(verb, e) == verb = "POST" /\ e = "end_of_stream"

\* variant: every shutdown error is ignored
ShutdownTolerated_Any(e) == TRUE

\* if (ec && ec != boost::asio::error::eof) throw
ShutdownTolerated(e) == e \in {"none", "eof"}

Resolve(ok) ==
  /\ pc = "resolve"
  /\ IF ok THEN pc' = "connect" /\ UNCHANGED <<outcome, errors>>
     ELSE Throw("resolve")
  /\ UNCHANGED <<m_apiUrl, ctorApiUrl, conn, op, arg, endpoint, keyObj, keyStr,
                 req, res, ret, readEc, shutEc, writes, reads, shutdowns,
                 calls, cerr>>

Connect(ok) ==
  /\ pc = "connect"
  /\ IF ok THEN conn' = "connected" /\ pc' = "handshake"
                /\ UNCHANGED <<outcome, errors>>
     ELSE conn' = "closed" /\ Throw("connect")
  /\ UNCHANGED <<m_apiUrl, ctorApiUrl, op, arg, endpoint, keyObj, keyStr,
                 req, res, ret, readEc, shutEc, writes, reads, shutdowns,
                 calls, cerr>>

Handshake(ok) ==
  /\ pc = "handshake"
  /\ IF ok THEN conn' = "established" /\ pc' = "write"
                /\ UNCHANGED <<outcome, errors>>
     ELSE UNCHANGED conn /\ Throw("handshake")
  /\ UNCHANGED <<m_apiUrl, ctorApiUrl, op, arg, endpoint, keyObj, keyStr,
                 req, res, ret, readEc, shutEc, writes, reads, shutdowns,
                 calls, cerr>>

\* the request built from the url and, for PUT and POST, the body
Request(verb, url, body) ==
  [host |-> url.host, verb |-> verb,
   body |-> IF HasBody(verb) THEN body ELSE <<>>,
   target |-> Target(url),
   content_type |-> IF HasBody(verb) THEN "application/json" ELSE ""]

\* variant: a failed write is tried once more
Write_Retry(ok) ==
  /\ pc = "write"
  /\ writes' = writes + 1
  /\ IF ok THEN /\ req' = <<Request(Verb(op), m_apiUrl, keyStr)>>
                /\ pc' = "read"
                /\ UNCHANGED <<outcome, errors>>
     ELSE IF writes = 0 THEN UNCHANGED <<req, pc, outcome, errors>>
     ELSE UNCHANGED req /\ Throw("write")
  /\ UNCHANGED <<m_apiUrl, ctorApiUrl, conn, op, arg, endpoint, keyObj, keyStr,
                 res, ret, readEc, shutEc, reads, shutdowns, calls, cerr>>

Write(ok) ==
  /\ pc = "write"
  /\ writes' = writes + 1
  /\ IF ok THEN /\ req' = <<Request(Verb(op), m_apiUrl, keyStr)>>
                /\ pc' = "read"
                /\ UNCHANGED <<outcome, errors>>
     ELSE UNCHANGED req /\ Throw("write")
  /\ UNCHANGED <<m_apiUrl, ctorApiUrl, conn, op, arg, endpoint, keyObj, keyStr,
                 res, ret, readEc, shutEc, reads, shutdowns, calls, cerr>>

Read(r) ==
  /\ pc = "read"
  /\ reads' = reads + 1
  /\ IF r.kind = "response"
     THEN /\ res' = [status |-> r.status, body |-> r.body]
          /\ readEc' = "none"
          /\ pc' = "shutdown"
          /\ UNCHANGED <<outcome, errors>>
     ELSE /\ readEc' = r.kind
          /\ UNCHANGED res
          /\ IF ReadErrorTolerated(Verb(op), r.kind)
             THEN pc' = "shutdown" /\ UNCHANGED <<outcome, errors>>
             ELSE Throw("read")
  /\ UNCHANGED <<m_apiUrl, ctorApiUrl, conn, op, arg, endpoint, keyObj, keyStr,
                 req, ret, shutEc, writes, shutdowns, calls, cerr>>

Shutdown(e) ==
  /\ pc = "shutdown"
  /\ shutdowns' = shutdowns + 1
  /\ shutEc' = e
  /\ IF ShutdownTolerated(e)
     THEN /\ conn' = "shutdown"
          /\ ret' = <<[status |-> res.status, body |-> res.body]>>
          /\ pc' = "check"
          /\ UNCHANGED <<outcome, errors>>
     ELSE /\ UNCHANGED <<conn, ret>>
          /\ Throw("shutdown")
  /\ UNCHANGED <<m_apiUrl, ctorApiUrl, op, arg, endpoint, keyObj, keyStr,
                 req, res, readEc, writes, reads, calls, cerr>>

TransportStep ==
  \/ \E ok \in BOOLEAN : Resolve(ok)
  \/ \E ok \in BOOLEAN : Connect(ok)
  \/ \E ok \in BOOLEAN : Handshake(ok)
  \/ \E ok \in BOOLEAN : Write(ok)
  \/ \E r \in ReadResults : Read(r)
  \/ \E e \in ShutdownCodes : Shutdown(e)

\* the transport function is running: between its call and its return or throw
InTransport == pc \in {"resolve", "connect", "handshake", "write", "read", "shutdown"}

doHttpsGet == InTransport /\ Verb(op) = "GET" /\ TransportStep
doHttpsPut == InTransport /\ Verb(op) = "PUT" /\ TransportStep
doHttpsPost == InTransport /\ Verb(op) = "POST" /\ TransportStep
doHttpsDelete == InTransport /\ Verb(op) = "DELETE" /\ TransportStep

(***************************************************************************)
(* Public operations: the part after the transport call returned.          *)
(***************************************************************************)
\* variant: updateAccessKey expects the conventional 200
ExpectedStatus_Update200(o) ==
  CASE o = "getAccessKeys" -> 200
    [] o = "getAccessKey" -> 200
    [] o = "createAccessKey" -> 201
    [] o = "updateAccessKey" -> 200
    [] o = "deleteAccessKey" -> 204

ExpectedStatus(o) ==
  CASE o = "getAccessKeys" -> 200
    [] o = "getAccessKey" -> 200
    [] o = "createAccessKey" -> 201
    [] o = "updateAccessKey" -> 201
    [] o = "deleteAccessKey" -> 204

\* variant: deleteAccessKey parses its body like the other operations
ParsesBody_All(o) == TRUE

ParsesBody(o) == o # "deleteAccessKey"

\* variant: the body is parsed before the status is looked at
Completion_ParseFirst(o, status, body) ==
  LET r == parse(body)
  IN IF ParsesBody(o) /\ ~r.ok THEN [kind |-> "ParseError"]
     ELSE IF status # ExpectedStatus(o)
          THEN [kind |-> "ServerError", status |-> status]
     ELSE IF ~ParsesBody(o) THEN [kind |-> "void"]
     ELSE [kind |-> "value", text |-> serialize(r.val)]

Completion(o, status, body) ==
  IF status # ExpectedStatus(o)
  THEN [kind |-> "ServerError", status |-> status]
  ELSE IF ~ParsesBody(o) THEN [kind |-> "void"]
  ELSE LET r == parse(body)
       IN IF ~r.ok THEN [kind |-> "ParseError"]
          ELSE [kind |-> "value", text |-> serialize(r.val)]

IsError(o) == o.kind \in {"ServerError", "ParseError", "TransportFault"}

Return ==
  /\ pc = "check"
  /\ outcome' = Completion(op, ret[1].status, ret[1].body)
  /\ errors' = IF IsError(outcome') THEN errors + 1 ELSE errors
  /\ pc' = "done"
  /\ UNCHANGED <<m_apiUrl, ctorApiUrl, conn, op, arg, endpoint, keyObj, keyStr,
                 req, res, ret, readEc, shutEc, writes, reads, shutdowns,
                 calls, cerr>>

\* ~OutlineClient: shutdown, errors other than not_connected are logged
Destroy(e) ==
  /\ pc \in {"idle", "done"}
  /\ IF conn = "established" THEN e \in {"none", "other"}
     ELSE e \in {"not_connected", "other"}
  /\ cerr' = (e \notin {"none", "not_connected"})
  /\ conn' = IF e = "none" THEN "shutdown" ELSE conn
  /\ pc' = "destroyed"
  /\ UNCHANGED <<m_apiUrl, ctorApiUrl, op, arg, endpoint, keyObj, keyStr,
                 req, res, ret, outcome, readEc, shutEc, writes, reads,
                 shutdowns, errors, calls>>

Next ==
  \/ getAccessKeys
  \/ \E id \in StrIds : getAccessKey(id)
  \/ \E p \in ParamSet : createAccessKey(p)
  \/ \E id \in IntIds, p \in ParamSet : updateAccessKey(id, p)
  \/ \E id \in StrIds : deleteAccessKey(id)
  \/ doHttpsGet
  \/ doHttpsPut
  \/ doHttpsPost
  \/ doHttpsDelete
  \/ Return
  \/ \E e \in {"none", "not_connected", "other"} : Destroy(e)

Spec == Init /\ [][Next]_vars

(***************************************************************************)
(* Properties.                                                             *)
(***************************************************************************)
Returned == pc = "done" /\ ret # <<>>

\* C1: the URL every request is sent to is the base API URL given at
\* construction plus the call's own endpoint path, whatever was called before.
C1_UrlIsBasePlusEndpoint ==
  req # <<>> => req[1].target = Target(appendUrl(ctorApiUrl, endpoint))

\* the single expected status of each operation, as the interface table has it
C2_Expected ==
  [getAccessKeys |-> 200, getAccessKey |-> 200, createAccessKey |-> 201,
   updateAccessKey |-> 201, deleteAccessKey |-> 204]

\* C2: when the transport returned a response, a status other than the
\* operation's one expected value gives ServerError carrying that status and
\* no value, whatever the body; the expected status never gives ServerError.
C2_StatusCheck ==
  Returned =>
    /\ ret[1].status # C2_Expected[op] =>
         outcome = [kind |-> "ServerError", status |-> ret[1].status]
    /\ ret[1].status = C2_Expected[op] => outcome.kind # "ServerError"

C2_Witness ==
  /\ Returned /\ op = "updateAccessKey" /\ ret[1].status = 200
  /\ ret[1].body = <<91, 93>> /\ outcome.kind = "ServerError"

\* C3: an invocation writes at most one request and reads at most once; one
\* that returns a value or fails with ServerError or ParseError did exactly
\* one write and one read; a failed invocation raised exactly one error and
\* does nothing on the network afterwards.
C3_OneRoundTrip ==
  /\ [](/\ writes <= 1 /\ reads <= 1 /\ errors <= 1
        /\ (pc = "done" /\ outcome.kind \in {"value", "void", "ServerError", "ParseError"})
             => (writes = 1 /\ reads = 1)
        /\ (pc = "done" /\ IsError(outcome)) => errors = 1
        /\ (pc = "done" /\ ~IsError(outcome)) => errors = 0)
  /\ [][(pc = "done" /\ IsError(outcome) /\ calls' = calls)
          => UNCHANGED <<writes, reads, shutdowns, req, errors>>]_vars

C3_Witness ==
  /\ pc = "done" /\ outcome.kind = "ParseError" /\ writes = 1 /\ reads = 1
  /\ errors = 1 /\ calls = 2

\* the members the request body must have for the given parameters
C4_Members(p) ==
  {<<K_name, JStr(p.name[i])>> : i \in DOMAIN p.name}
    \cup {<<K_password, JStr(p.password[i])>> : i \in DOMAIN p.password}
    \cup {<<K_method, JStr(p.method[i])>> : i \in DOMAIN p.method}
    \cup {<<K_limit, JObj(<<<<K_bytes, JNum(p.data_limit_bytes[i])>>>>)>> :
            i \in DOMAIN p.data_limit_bytes}

\* C4: the body sent by createAccessKey and updateAccessKey is a JSON object
\* with name, password, method exactly when the field is present, limit =
\* {"bytes": n} exactly when data_limit_bytes is present, and no other key;
\* with no field it is {}.
C4_BodyHasPresentFieldsOnly ==
  (req # <<>> /\ op \in {"createAccessKey", "updateAccessKey"}) =>
    LET r == parse(req[1].body)
    IN /\ r.ok
       /\ r.val.t = "obj"
       /\ {r.val.members[i] : i \in DOMAIN r.val.members} = C4_Members(arg.params)
       /\ Len(r.val.members) = Cardinality(C4_Members(arg.params))
       /\ arg.params = NoParams => req[1].body = <<123, 125>>

C4_Witness ==
  /\ req # <<>> /\ op = "createAccessKey"
  /\ arg.params.name = <<V_name>> /\ arg.params.data_limit_bytes = <<1000>>
  /\ arg.params.password = <<>> /\ arg.params.method = <<>>
  \* {"name":"alice","limit":{"bytes":1000}}
  /\ req[1].body = <<123, 34, 110, 97, 109, 101, 34, 58, 34, 97, 108, 105, 99,
                     101, 34, 44, 34, 108, 105, 109, 105, 116, 34, 58, 123, 34,
                     98, 121, 116, 101, 115, 34, 58, 49, 48, 48, 48, 125, 125>>

\* the response bodies that are valid JSON, with their canonical text:
\* {"a":[ 1 ]} is {"a":[1]} and [] is []
C5_Canonical ==
  (<<123, 34, 97, 34, 58, 91, 32, 49, 32, 93, 125>>
      :> <<123, 34, 97, 34, 58, 91, 49, 93, 125>>)
  @@ (<<91, 93>> :> <<91, 93>>)

\* C5: for the four operations that return JSON, ParseError happens exactly
\* when the status is the expected one and the body is not valid JSON; an
\* unexpected status gives ServerError even with a malformed body; a valid
\* body with the expected status gives the re-serialized text.
C5_ParseAfterStatus ==
  (Returned /\ op # "deleteAccessKey") =>
    LET ok == ret[1].status = C2_Expected[op]
        valid == ret[1].body \in DOMAIN C5_Canonical
    IN /\ outcome.kind = "ParseError" <=> (ok /\ ~valid)
       /\ ~ok => outcome.kind = "ServerError"
       /\ (ok /\ valid) =>
            outcome = [kind |-> "value", text |-> C5_Canonical[ret[1].body]]

C5_Witness ==
  /\ Returned /\ op = "createAccessKey" /\ ret[1].status = 201
  /\ ret[1].body = <<123, 34, 97, 34, 58>> /\ outcome.kind = "ParseError"

\* C6: deleteAccessKey returns normally without a value on 204 for every
\* body, never fails with ParseError, and fails with ServerError carrying the
\* status for every other status.
C6_DeleteNeverParses ==
  (Returned /\ op = "deleteAccessKey") =>
    /\ ret[1].status = 204 => outcome = [kind |-> "void"]
    /\ ret[1].status # 204 =>
         outcome = [kind |-> "ServerError", status |-> ret[1].status]

C6_Witness ==
  /\ Returned /\ op = "deleteAccessKey" /\ ret[1].status = 204
  /\ ret[1].body = <<123, 34, 97, 34, 58>> /\ outcome.kind = "void"

\* C7: a failed read (as any failed network step) makes the operation fail
\* with a transport fault; it is never followed by a shutdown and a
\* (status, body) result.
C7_NoFailureSwallowed ==
  readEc # "none" => (outcome.kind = "TransportFault" /\ ret = <<>>)

\* C8: when a call has ended, whatever its outcome, the connection it opened
\* is not left open without having been shut down.
C8_ShutDownOnEveryExit ==
  pc = "done" => conn \notin {"connected", "established"}

\* C9: updateAccessKey(id, params) builds the path /access-keys/ followed by
\* the decimal text of id.
C9_UpdatePathIsDecimalId ==
  op = "updateAccessKey" => endpoint = T_AccessKeys \o <<47>> \o ToDecimal(arg.intId)

\* C10: the TLS shutdown comes after the read and before the status is
\* returned; a shutdown ending with no error or end-of-stream passes the
\* response read on as the result; any other shutdown error is a transport
\* fault and the response is discarded.
C10_ShutdownPolicy ==
  /\ shutdowns <= 1
  /\ shutdowns = 1 => reads = 1
  /\ ret # <<>> => shutdowns = 1
  /\ (shutdowns = 1 /\ shutEc \in {"none", "eof"}) =>
       ret = <<[status |-> res.status, body |-> res.body]>>
  /\ (shutdowns = 1 /\ shutEc \notin {"none", "eof"}) =>
       (outcome.kind = "TransportFault" /\ ret = <<>>)

C10_Witness ==
  /\ pc = "done" /\ shutdowns = 1 /\ shutEc = "other" /\ readEc = "none"
  /\ reads = 1 /\ res.status = C2_Expected[op] /\ outcome.kind = "TransportFault"

====
